---- MODULE Spec2Model ----
(***************************************************************************)
(* Model of the ares-contrib rate limiter middleware                       *)
(* (middleware/ratelimiter): the per-key registry of token buckets, the    *)
(* request handler returned by New, the background cleanup goroutine and   *)
(* Stop.                                                                   *)
(*                                                                         *)
(* Time is a discrete clock of ticks, Second ticks to the second.  A rate  *)
(* is held in units of 1/RateUnit tokens per second, and a token count in  *)
(* units of 1/Scale tokens, so that every refill is exact integer          *)
(* arithmetic.  The token bucket itself is golang.org/x/time/rate (v0.8.0, *)
(* examples/basic/go.mod), modelled by what Allow does.                    *)
(***************************************************************************)
EXTENDS Integers, Sequences, FiniteSets, TLC

\* ------------------------------------------------------------------ bounds
\* Requests issued to a handler that serves them concurrently.
NumReqs == 2
\* Requests issued by a client that sends them one after the other.
NumSeqReqs == 5
\* Times the clock moves while the requests are served.
MaxAdvances == 1
\* Fields of an X-Forwarded-For header.
MaxForwarded == 2

\* --------------------------------------------------------------- constants
\* Clock ticks per second (one tick is 250ms).
Second == 4
\* Rates are multiples of 1/RateUnit tokens per second.
RateUnit == 1000
\* Token counts are multiples of 1/Scale tokens.
Scale == Second * RateUnit
Minute == 60 * Second
\* cleanup(5*time.Minute, 10*time.Minute)
CleanupInterval == 5 * Minute
MaxAge == 10 * Minute

StatusOK == 200
StatusTooManyRequests == 429
StatusServiceUnavailable == 503

Nil == 0
\* rl.mu with no holder; a holder is <<"req", i>> or <<"cleanup">>.
Unlocked == <<>>
\* The keys of TestRateLimiterWithCustomKeyFunc, in the order in which the
\* clients first use them (keys are only ever compared for equality).
KeyOrder == <<"user1", "user2">>
Keys == {KeyOrder[j] : j \in 1..Len(KeyOrder)}

Min(a, b) == IF a < b THEN a ELSE b

VARIABLES
    o,            \* options: rate, burst, errorHandler
    load,         \* the clients: requests to send, and how many at once
    limiters,     \* rl.limiters: key -> *limiterEntry (Nil when absent)
    heap,         \* the limiterEntry objects ever allocated, by address
    mu,           \* rl.mu: Unlocked, or the writer holding it
    ctxDone,      \* ctx of cleanup has been cancelled
    cleanupDone,  \* rl.cleanupDone has been closed
    tickerC,      \* a tick is waiting in ticker.C (capacity 1)
    tickerOn,     \* the ticker has not been stopped
    cpc,          \* position of the cleanup goroutine
    now,          \* the wall clock, in ticks
    advances,     \* times the clock has moved
    reqs,         \* the requests sent so far, in order of arrival, each
                  \* with its locals (key, now, entry, the t of Allow),
                  \* its position and the response written so far
    stops,        \* position of each caller of Stop
    ref,          \* reference run: the bucket of each key when the same
                  \* admission checks are made and no sweep ever runs
    hreq,         \* extractIP: the request r (RemoteAddr and proxy headers)
    key,          \* extractIP: <<>>, or <<k>> once k has been returned
    jwt,          \* JWT middleware: options, the Authorization header of
                  \* the request, and what the handler has done with it
    cors,         \* CORS middleware: options, the Origin and method of the
                  \* request, and what the handler has done with it
    gz,           \* gzip middleware: options, the request, the
                  \* gzipResponseWriter, the underlying response and the
                  \* calls the next handler has made
    mws           \* the rate limiter middlewares New has returned, the
                  \* handlers they wrap, and the requests those have served

vars == <<o, load, limiters, heap, mu, ctxDone, cleanupDone, tickerC, tickerOn,
          cpc, now, advances, reqs, stops, ref, hreq, key, jwt, cors, gz,
          mws>>

\* The state of the rate limiter, and the state of the other functions and
\* middlewares of the repository, each of which runs on its own.
limiterVars == <<o, load, limiters, heap, mu, ctxDone, cleanupDone, tickerC,
                 tickerOn, cpc, now, advances, reqs, stops, ref>>
otherVars == <<hreq, key, jwt, cors, gz, mws>>

\* ------------------------------------------------------- the token bucket
\* rate.NewLimiter(rl.rate, rl.burst): a full bucket.
NewLimiter(opt) == [tokens |-> opt.burst * Scale, last |-> 0]

\* Limit.tokensFromDuration: tokens (in 1/Scale) that accumulate in d ticks.
tokensFromDuration(opt, d) == IF opt.rate <= 0 THEN 0 ELSE d * opt.rate

\* Mutant: the refill is not capped at burst.
advanceNoCap(opt, lim, t) ==
    LET last == IF t < lim.last THEN t ELSE lim.last
    IN  lim.tokens + tokensFromDuration(opt, t - last)

\* Limiter.advance: the token count at time t, capped at burst.
advance(opt, lim, t) ==
    LET last == IF t < lim.last THEN t ELSE lim.last
        tokens == lim.tokens + tokensFromDuration(opt, t - last)
    IN  Min(tokens, opt.burst * Scale)

\* Mutant: a whole token must be left over after the request is served.
AllowOkStrict(opt, lim, t) ==
    1 <= opt.burst /\ advance(opt, lim, t) - Scale > 0

\* Limiter.Allow() at time t = reserveN(t, 1, 0): whether one token is there,
\* and the bucket afterwards (changed only when the request is allowed).
AllowOk(opt, lim, t) == 1 <= opt.burst /\ advance(opt, lim, t) - Scale >= 0

\* Mutant: a rejected request moves lim.last to its own time and loses
\* what had accumulated since.
AllowLimRejectTouches(opt, lim, t) ==
    IF AllowOk(opt, lim, t)
    THEN [tokens |-> advance(opt, lim, t) - Scale, last |-> t]
    ELSE [tokens |-> lim.tokens, last |-> t]

\* Mutant: an allowed request takes its token and leaves lim.last alone.
AllowLimKeepLast(opt, lim, t) ==
    IF AllowOk(opt, lim, t)
    THEN [tokens |-> advance(opt, lim, t) - Scale, last |-> lim.last]
    ELSE lim

AllowLim(opt, lim, t) ==
    IF AllowOk(opt, lim, t)
    THEN [tokens |-> advance(opt, lim, t) - Scale, last |-> t]
    ELSE lim

\* ------------------------------------------------------------ the registry
\* limiterEntry{limiter: rate.NewLimiter(...), lastAccess: now}
NewEntry(opt, t) == [limiter |-> NewLimiter(opt), lastAccess |-> t]

\* Mutant: the loop of cleanup finds nothing to delete.
ExpiredNever(m, h, t, maxAge) == {}

\* The loop of cleanup: the keys whose entry was last accessed more than
\* maxAge before t.
Expired(m, h, t, maxAge) ==
    {k \in Keys : m[k] # Nil /\ t - h[m[k]].lastAccess > maxAge}

\* ---------------------------------------------------------- the responses
NoResponse == [status |-> 0, ctype |-> "", body |-> "", next |-> 0, reject |-> 0]

\* next.ServeHTTP(w, r): the wrapped handler of the tests answers 200.
ServeNext(w) == [w EXCEPT !.status = StatusOK, !.next = @ + 1]

\* The error handler of TestRateLimiterWithCustomErrorHandler.
CustomErrorHandler(w) ==
    [w EXCEPT !.status = StatusServiceUnavailable,
              !.body = "Custom rate limit error", !.reject = @ + 1]

\* Mutant: the default reject path without its Content-Type header.
DefaultRejectPlain(w) ==
    [w EXCEPT !.status = StatusTooManyRequests,
              !.body = "{\"error\":\"rate limit exceeded\"}", !.reject = @ + 1]

\* The default reject path of New.
DefaultReject(w) ==
    [w EXCEPT !.ctype = "application/json",
              !.status = StatusTooManyRequests,
              !.body = "{\"error\":\"rate limit exceeded\"}", !.reject = @ + 1]

\* Mutant: the reject path does not return, and next is served as well.
RespondFallThrough(opt, ok, w) ==
    IF ~ok
    THEN IF opt.errorHandler # "nil" THEN ServeNext(CustomErrorHandler(w))
         ELSE ServeNext(DefaultReject(w))
    ELSE ServeNext(w)

\* The part of the handler that follows l.Allow().
Respond(opt, ok, w) ==
    IF ~ok
    THEN IF opt.errorHandler # "nil" THEN CustomErrorHandler(w)
         ELSE DefaultReject(w)
    ELSE ServeNext(w)

\* ------------------------------------------------------------- extractIP
\* The strings that are tried as addresses: a public, a private and a
\* loopback IP, and a host name; net.ParseIP accepts the first three.
IPs == {"8.8.8.8", "10.0.0.1", "127.0.0.1"}
Hosts == IPs \cup {"unknown"}
Ports == {"1234", "5678"}

\* net.ParseIP(s) != nil
ParseIP(s) == s \in IPs
\* IP.IsLoopback()
IsLoopback(s) == s = "127.0.0.1"

\* The peer address "host:port" as net/http writes it.
JoinHostPort(h, p) == h \o ":" \o p

\* net.SplitHostPort(s): the host of "host:port", or an error when s has
\* no port (or is empty).
SplitHostPort(s) ==
    IF \E h \in Hosts, p \in Ports : s = JoinHostPort(h, p)
    THEN [host |-> CHOOSE h \in Hosts :
                       \E p \in Ports : s = JoinHostPort(h, p),
          err |-> FALSE]
    ELSE [host |-> "", err |-> TRUE]

\* strings.TrimSpace, on a field that follows ", " in a header.
TrimSpace(s) == IF s = " 8.8.8.8" THEN "8.8.8.8" ELSE s

\* The loop over strings.Split(forwarded, ","), ips being its fields from
\* the i-th on: the first field that, trimmed, is an IP and not loopback
\* ("" when the loop ends without a return).
RECURSIVE FirstForwarded(_, _)
FirstForwarded(ips, i) ==
    IF i > Len(ips) THEN ""
    ELSE LET ip == TrimSpace(ips[i])
         IN  IF ParseIP(ip) /\ ~IsLoopback(ip) THEN ip
             ELSE FirstForwarded(ips, i + 1)

\* Mutant: the proxy headers are tried before the peer address.
extractIPHeadersFirst(r) ==
    LET sp == SplitHostPort(r.RemoteAddr)
    IN  IF r.forwarded # <<>> /\ FirstForwarded(r.forwarded, 1) # ""
        THEN FirstForwarded(r.forwarded, 1)
        ELSE IF ~sp.err /\ ParseIP(sp.host) THEN sp.host
        ELSE r.RemoteAddr

\* extractIP(r): r.forwarded holds the fields of X-Forwarded-For (<<>> when
\* the header is empty or absent), r.realIP is X-Real-IP.
extractIP(r) ==
    LET sp == SplitHostPort(r.RemoteAddr)
    IN  IF ~sp.err /\ ParseIP(sp.host) THEN sp.host
        ELSE IF r.forwarded # <<>> /\ FirstForwarded(r.forwarded, 1) # ""
        THEN FirstForwarded(r.forwarded, 1)
        ELSE IF r.realIP # "" /\ ParseIP(r.realIP) /\ ~IsLoopback(r.realIP)
        THEN r.realIP
        ELSE r.RemoteAddr

\* The requests extractIP is tried on.
RemoteAddrs ==
    {JoinHostPort(h, p) : h \in {"8.8.8.8", "10.0.0.1", "unknown"}, p \in Ports}
        \cup {"10.0.0.1", ""}
ForwardedFields == {" 8.8.8.8", "10.0.0.1", "127.0.0.1", "unknown"}
Forwardeds ==
    UNION {[1..n -> ForwardedFields] : n \in 0..MaxForwarded}
RealIPs == {"", "10.0.0.1", "127.0.0.1", " 8.8.8.8"}
Requests ==
    [RemoteAddr : RemoteAddrs, forwarded : Forwardeds, realIP : RealIPs]

NoRequest == [RemoteAddr |-> "", forwarded |-> <<>>, realIP |-> ""]

\* key := o.keyFunc(r), keyFunc being extractIP.
ExtractKey ==
    /\ hreq \in Requests
    /\ key = <<>>
    /\ key' = <<extractIP(hreq)>>
    /\ UNCHANGED <<limiterVars, hreq, jwt, cors, gz, mws>>

\* No request is waiting for its key.
ExtractIdle == hreq = NoRequest /\ key = <<NoRequest.RemoteAddr>>

\* ---------------------------------------------------- the JWT middleware
StatusUnauthorized == 401

\* What the handler returned by New has written and done: the response,
\* whether next was served, and the claims put in the request context
\* (by context key).
JwtNothing ==
    [status |-> 0, ctype |-> "", code |-> 0, message |-> "", next |-> 0,
     ctxKey |-> "", ctxClaims |-> ""]

\* jsonResponse(w, statusCode, message)
jsonResponse(w, statusCode, message) ==
    [w EXCEPT !.ctype = "application/json", !.status = statusCode,
              !.code = statusCode, !.message = message]

\* strings.EqualFold(auths[0], bearerWord)
EqualFoldBearer(s) == s \in {"Bearer", "bearer", "BEARER"}


\* jwt.Parse(jwtToken, keyFunc): the error, "" when there is none. The
\* token is split and decoded, its signature is verified by the method its
\* header names with o.signingKey, then exp and nbf are validated.
Parse(opt, tok) ==
    IF tok.form # "ok" THEN "malformed"
    ELSE IF tok.alg \notin {"HS256", "HS512"} THEN "signature"
    ELSE IF tok.key # opt.signingKey THEN "signature"
    ELSE IF tok.time = "expired" THEN "expired"
    ELSE IF tok.time = "notyet" THEN "notyet"
    ELSE ""

\* Mutant: the signing method of the token is not compared.
MethodMatchesAny(opt, tok) == TRUE

\* tokenInfo.Method != o.signingMethod
MethodMatches(opt, tok) == tok.alg = opt.signingMethod

\* The handler returned by New, on the Authorization header split at its
\* first space: auths is <<scheme>> or <<scheme, token>>.
JwtHandler(opt, auths, w) ==
    IF Len(auths) # 2 \/ ~EqualFoldBearer(auths[1])
    THEN jsonResponse(w, StatusUnauthorized, "JWT token is missing")
    ELSE LET tok == auths[2]
             err == Parse(opt, tok)
         IN  IF err \in {"malformed"}
             THEN jsonResponse(w, StatusUnauthorized, "token is invalid")
             ELSE IF err \in {"expired", "notyet"}
             THEN jsonResponse(w, StatusUnauthorized, "JWT token has expired")
             ELSE IF err # ""
             THEN jsonResponse(w, StatusUnauthorized, "fail to parse JWT token")
             ELSE IF ~MethodMatches(opt, tok)
             THEN jsonResponse(w, StatusUnauthorized, "wrong signing method")
             ELSE [w EXCEPT !.ctxKey = opt.contextKey,
                            !.ctxClaims = tok.claims,
                            !.status = StatusOK, !.next = @ + 1]

\* The options of New: the key, WithSigningMethod, WithContextKey.
JwtOptions ==
    [signingKey : {"test-secret"}, signingMethod : {"HS256", "HS512"},
     contextKey : {"user", "custom_claims"}]

\* The tokens that are sent: signed by a method with a key, well-formed
\* or not, and expired, not yet valid or neither.
Tokens ==
    [alg : {"HS256", "HS512", "RS256", "none"},
     key : {"test-secret", "wrong-secret"},
     form : {"ok", "malformed"},
     time : {"valid", "expired", "notyet"},
     claims : {"user_id:123"}]

\* The Authorization headers, split at the first space.
Authorizations ==
    {<<sch>> : sch \in {"", "Bearer"}}
        \cup {<<sch, tok>> : sch \in {"Bearer", "bearer", "Basic"}, tok \in Tokens}

\* One request is served.
JwtServe ==
    /\ jwt.w = JwtNothing
    /\ jwt' = [jwt EXCEPT !.w = JwtHandler(jwt.o, jwt.auths, jwt.w)]
    /\ UNCHANGED <<limiterVars, hreq, key, cors, gz, mws>>

\* No request is sent to a JWT middleware.
JwtIdle ==
    jwt = [o |-> [signingKey |-> "test-secret", signingMethod |-> "HS256",
                  contextKey |-> "user"],
           auths |-> <<"">>,
           w |-> JwtHandler([signingKey |-> "test-secret",
                             signingMethod |-> "HS256",
                             contextKey |-> "user"], <<"">>, JwtNothing)]

\* --------------------------------------------------- the CORS middleware
MaxOrigins == 2
StatusNoContent == 204
DefaultMaxAge == 3600

\* isOriginAllowed(origin, allowedOrigins)
isOriginAllowed(origin, allowedOrigins) ==
    \E i \in 1..Len(allowedOrigins) :
        allowedOrigins[i] = "*" \/ allowedOrigins[i] = origin

\* The response before the handler has run: no header, no status, next
\* not invoked. A header that is not set is "".
CorsNothing ==
    [allowOrigin |-> "", allowMethods |-> FALSE, allowHeaders |-> FALSE,
     vary |-> "", allowCredentials |-> "", maxAge |-> 0, status |-> 0,
     next |-> 0]

\* Mutant: a preflight request is passed to next as well.
CorsFinishNext(method, w) == [w EXCEPT !.status = StatusOK, !.next = @ + 1]

\* The end of both branches of the handler: a preflight request is answered
\* with 204, any other request goes to next.
CorsFinish(method, w) ==
    IF method = "OPTIONS"
    THEN [w EXCEPT !.status = StatusNoContent]
    ELSE [w EXCEPT !.status = StatusOK, !.next = @ + 1]

\* o.allowCredentials && allowedOrigin != "*"
CorsCredentials(opt, allowedOrigin) ==
    opt.allowCredentials /\ allowedOrigin # "*"

\* The headers set for an origin that is allowed.
CorsHeaders(opt, allowedOrigin, w) ==
    [w EXCEPT !.allowOrigin = allowedOrigin,
              !.allowMethods = TRUE, !.allowHeaders = TRUE,
              !.vary = IF allowedOrigin # "*" THEN "Origin" ELSE @,
              !.allowCredentials =
                  IF CorsCredentials(opt, allowedOrigin) THEN "true" ELSE @,
              !.maxAge = IF opt.maxAge > 0 THEN opt.maxAge ELSE @]

\* The handler returned by New.
CorsHandler(opt, origin, method, w) ==
    IF Len(opt.allowedOrigins) = 1 /\ opt.allowedOrigins[1] = "*"
    THEN CorsFinish(method, CorsHeaders(opt, "*", w))
    ELSE IF isOriginAllowed(origin, opt.allowedOrigins)
    THEN CorsFinish(method, CorsHeaders(opt, origin, w))
    ELSE CorsFinish(method,
                    [w EXCEPT !.allowMethods = TRUE, !.allowHeaders = TRUE])

\* The options of New: WithAllowedOrigins, WithAllowCredentials, WithMaxAge.
AllowedOriginLists ==
    UNION {[1..n -> {"*", "https://example.com", "https://other.com"}] :
               n \in 0..MaxOrigins}

CorsOptions ==
    [allowedOrigins : AllowedOriginLists, allowCredentials : BOOLEAN,
     maxAge : {0, DefaultMaxAge}]


\* One request is served.
CorsServe ==
    /\ cors.w = CorsNothing
    /\ cors' = [cors EXCEPT
                    !.w = CorsHandler(cors.o, cors.origin, cors.method, cors.w)]
    /\ UNCHANGED <<limiterVars, hreq, key, jwt, gz, mws>>

\* No request is sent to a CORS middleware.
CorsDefault ==
    [allowedOrigins |-> <<"*">>, allowCredentials |-> FALSE,
     maxAge |-> DefaultMaxAge]

CorsIdle ==
    cors = [o |-> CorsDefault, origin |-> "", method |-> "GET",
            w |-> CorsHandler(CorsDefault, "", "GET", CorsNothing)]

\* --------------------------------------------------- the gzip middleware
MaxCalls == 3
StatusNotModified == 304
StatusNotFound == 404

\* The bytes of a body, and what the next handler passes to one Write.
Bytes == {1, 2}
Chunks == UNION {[1..n -> Bytes] : n \in 0..2}

\* compress/gzip.Writer: a header before the first byte, each byte
\* deflated, a trailer at Close.
GzipHeader == 31
GzipTrailer == 99
Deflate(b) == b + 10
Inflate(z) == z - 10

DeflateAll(p) == [i \in 1..Len(p) |-> Deflate(p[i])]

\* gzip.NewReader and io.ReadAll on a body: the bytes of a stream that is
\* a header, deflated bytes and a trailer; <<-1>> for anything else.
Gunzip(body) ==
    IF /\ Len(body) >= 2
       /\ body[1] = GzipHeader /\ body[Len(body)] = GzipTrailer
       /\ \A i \in 2..(Len(body) - 1) : Inflate(body[i]) \in Bytes
    THEN [i \in 1..(Len(body) - 2) |-> Inflate(body[i + 1])]
    ELSE <<-1>>

\* The underlying http.ResponseWriter: WriteHeader sends the status and the
\* headers as they are, once.
UnderWriteHeader(g, code) ==
    IF g.status # 0 THEN g
    ELSE [g EXCEPT !.status = code, !.sentEncoding = g.encoding,
                   !.sentVary = g.vary, !.sentLength = g.length]

\* The underlying Write: the header goes first, with 200, if it has not
\* been sent.
UnderWrite(g, p) ==
    [UnderWriteHeader(g, StatusOK) EXCEPT !.body = @ \o p]

\* w.writer.Write(p): the gzip writer writes to the underlying response.
GzipWrite(g, p) ==
    [UnderWrite(g, (IF g.zopen THEN <<>> ELSE <<GzipHeader>>)
                       \o DeflateAll(p))
        EXCEPT !.zopen = TRUE]

\* w.writer.Close()
GzipClose(g) ==
    [UnderWrite(g, (IF g.zopen THEN <<>> ELSE <<GzipHeader>>)
                       \o <<GzipTrailer>>)
        EXCEPT !.zopen = TRUE]

\* Mutant: WriteHeader decides to compress whatever is buffered.
DecideAtHeaderAlways(g) == "true"

\* The decision WriteHeader makes when none has been made.
DecideAtHeader(g) ==
    IF Len(g.buffer) >= g.o.minLength THEN "true" ELSE "false"

\* Mutant: the Content-Length the handler has set stays in the header.
SetGzipHeadersKeepLength(g) ==
    [g EXCEPT !.encoding = "gzip", !.vary = "Accept-Encoding"]

\* The headers of a compressed response: Content-Encoding is set,
\* Content-Length deleted, Accept-Encoding added to Vary.
SetGzipHeaders(g) ==
    [g EXCEPT !.encoding = "gzip", !.length = "",
              !.vary = "Accept-Encoding"]

\* (w *gzipResponseWriter) WriteHeader(code)
WriteHeader(g, code) ==
    IF g.wroteHeader THEN g
    ELSE LET g1 == [g EXCEPT !.wroteHeader = TRUE]
             g2 == IF code \in {StatusNoContent, StatusNotModified}
                   THEN [g1 EXCEPT !.shouldCompress = "false"] ELSE g1
             g3 == IF g2.shouldCompress = "nil"
                   THEN [g2 EXCEPT !.shouldCompress = DecideAtHeader(g2)]
                   ELSE g2
             g4 == IF g3.shouldCompress = "true"
                   THEN SetGzipHeaders(g3)
                   ELSE g3
         IN  UnderWriteHeader([g4 EXCEPT !.headersSent = TRUE], code)

\* Mutant: the buffer is dropped instead of being written first.
FlushBufferDrop(g) == [g EXCEPT !.buffer = <<>>]

\* The buffer is written first, to the gzip writer or to the underlying
\* response, and released.
FlushBuffer(g) ==
    IF Len(g.buffer) = 0 THEN g
    ELSE IF g.shouldCompress = "true"
    THEN [GzipWrite(g, g.buffer) EXCEPT !.buffer = <<>>]
    ELSE [UnderWrite(g, g.buffer) EXCEPT !.buffer = <<>>]

\* (w *gzipResponseWriter) Write(b)
Write(g, b) ==
    IF ~g.headersSent /\ g.shouldCompress = "nil"
          /\ Len(g.buffer) + Len(b) < g.o.minLength
    THEN [g EXCEPT !.buffer = @ \o b]
    ELSE LET g1 == IF ~g.headersSent /\ g.shouldCompress = "nil"
                   THEN [g EXCEPT !.shouldCompress =
                            IF Len(g.buffer) + Len(b) >= g.o.minLength
                            THEN "true" ELSE "false"]
                   ELSE g
             g2 == IF ~g1.headersSent /\ ~g1.wroteHeader
                   THEN WriteHeader(g1, StatusOK) ELSE g1
         IN  IF g2.shouldCompress = "nil" THEN [g2 EXCEPT !.panic = TRUE]
             ELSE IF g2.shouldCompress = "false"
             THEN UnderWrite(FlushBuffer(g2), b)
             ELSE GzipWrite(FlushBuffer(g2), b)

\* (w *gzipResponseWriter) Close()
Close(g) ==
    LET g1 == IF g.shouldCompress = "nil" /\ Len(g.buffer) > 0
              THEN LET d == [g EXCEPT !.shouldCompress =
                                IF Len(g.buffer) >= g.o.minLength
                                THEN "true" ELSE "false"]
                   IN  IF ~d.wroteHeader THEN WriteHeader(d, StatusOK) ELSE d
              ELSE g
        g2 == FlushBuffer(g1)
    IN  IF g2.shouldCompress = "true" THEN GzipClose(g2) ELSE g2

\* strings.Contains(r.Header.Get("Accept-Encoding"), "gzip")
AcceptsGzip(accept) == accept \in {"gzip", "gzip, deflate"}

\* strings.HasPrefix(r.URL.Path, path)
HasPrefix(path, prefix) ==
    \/ prefix = ""
    \/ prefix = path
    \/ prefix = "/metrics" /\ path = "/metrics/cpu"

\* strings.HasSuffix(r.URL.Path, ext)
HasSuffix(path, ext) == ext = ".png" /\ path = "/logo.png"

\* The request is served through a gzipResponseWriter.
Wrapped(opt, r) ==
    /\ AcceptsGzip(r.accept)
    /\ \A i \in 1..Len(opt.excludedPaths) :
           ~HasPrefix(r.path, opt.excludedPaths[i])
    /\ \A i \in 1..Len(opt.excludedExtensions) :
           ~HasSuffix(r.path, opt.excludedExtensions[i])

\* The options of New with WithMinLength and WithExcludedPaths; the
\* excluded extensions are the default ones.
GzipOptions ==
    [minLength : {2, 3}, excludedPaths : {<<"/metrics">>},
     excludedExtensions : {<<".png", ".jpg">>}]

GzipRequests ==
    [accept : {"gzip, deflate", "br"},
     path : {"/test", "/metrics/cpu", "/logo.png"}]

\* The middleware before it has served its request: newGzipResponseWriter
\* and a response to which nothing has been written. calls counts the
\* calls of the next handler and wrote is all it has passed to Write.
GzipNew(opt, r) ==
    [o |-> opt, r |-> r, pc |-> "new", wrapped |-> FALSE,
     wroteHeader |-> FALSE, headersSent |-> FALSE, buffer |-> <<>>,
     shouldCompress |-> "nil", zopen |-> FALSE, panic |-> FALSE,
     encoding |-> "", vary |-> "", length |-> "", status |-> 0,
     sentEncoding |-> "", sentVary |-> "", sentLength |-> "", body |-> <<>>,
     calls |-> 0, wrote |-> <<>>, lengthSet |-> FALSE]

\* The handler returned by New, up to next.ServeHTTP.
GzipServe ==
    /\ gz.pc = "new"
    /\ gz' = [gz EXCEPT !.pc = "next", !.wrapped = Wrapped(gz.o, gz.r)]
    /\ UNCHANGED <<limiterVars, hreq, key, jwt, cors, mws>>

\* The next handler sets Content-Length, before anything else:
\* w.Header().Set("Content-Length", "1000")
HandlerSetLength ==
    /\ gz.pc = "next" /\ gz.calls = 0 /\ ~gz.lengthSet
    /\ gz' = [gz EXCEPT !.length = "1000", !.lengthSet = TRUE]
    /\ UNCHANGED <<limiterVars, hreq, key, jwt, cors, mws>>

\* The next handler calls Write(b), on the gzipResponseWriter or on the
\* response itself.
HandlerWrite(b) ==
    /\ gz.pc = "next" /\ gz.calls < MaxCalls
    /\ gz' = [(IF gz.wrapped THEN Write(gz, b) ELSE UnderWrite(gz, b))
                 EXCEPT !.calls = @ + 1, !.wrote = @ \o b]
    /\ UNCHANGED <<limiterVars, hreq, key, jwt, cors, mws>>

\* The next handler calls WriteHeader(code).
HandlerWriteHeader(code) ==
    /\ gz.pc = "next" /\ gz.calls < MaxCalls
    /\ gz' = [(IF gz.wrapped THEN WriteHeader(gz, code)
                ELSE UnderWriteHeader(gz, code))
                 EXCEPT !.calls = @ + 1]
    /\ UNCHANGED <<limiterVars, hreq, key, jwt, cors, mws>>

\* The next handler returns, and the deferred Close runs.
HandlerReturn ==
    /\ gz.pc = "next"
    /\ gz' = [(IF gz.wrapped THEN Close(gz) ELSE gz) EXCEPT !.pc = "done"]
    /\ UNCHANGED <<limiterVars, hreq, key, jwt, cors, mws>>

\* No request is sent to a gzip middleware.
GzipIdle ==
    gz = GzipNew([minLength |-> 2, excludedPaths |-> <<"/metrics">>,
                  excludedExtensions |-> <<".png", ".jpg">>],
                 [accept |-> "br", path |-> "/test"])

\* ------------------------------------------- the middlewares New returns
MaxMiddlewares == 2
MaxHandlers == 3
MaxServed == 3

\* The options of the calls of New: WithBurst(1) and WithBurst(2), one
\* request per second.
NewOptions ==
    {[rate |-> RateUnit, burst |-> 1, errorHandler |-> "nil"],
     [rate |-> RateUnit, burst |-> 2, errorHandler |-> "nil"]}

\* New(opts...): limiter := newRateLimiter(o.rate, o.burst) with an empty
\* registry, and limiter.cleanup(...) has started its sweep loop. A key
\* without a bucket has <<>>, a key with one has <<bucket>>.
NewMiddleware(opt) ==
    [o |-> opt, limiters |-> [k \in Keys |-> <<>>], cleanup |-> "select",
     served |-> [k \in Keys |-> 0], admitted |-> [k \in Keys |-> 0]]

\* Mutant: one registry for the whole package, the first one made.
LimiterOfGlobal(h) == 1

\* The limiter that the handler h has captured: the one of the call of New
\* that has returned the middleware value that wraps it.
LimiterOf(h) == mws.handlers[h].mw

\* getLimiter(key) on a registry, at the instant the registry was made: the
\* registry with a bucket for the key, new if there was none.
getLimiter(m, k) ==
    IF m.limiters[k] # <<>> THEN m
    ELSE [m EXCEPT !.limiters[k] = <<NewLimiter(m.o)>>]

\* A call of New returns a middleware value.
MwNew(opt) ==
    /\ Len(mws.made) < MaxMiddlewares
    /\ mws' = [mws EXCEPT !.made = Append(@, NewMiddleware(opt))]
    /\ UNCHANGED <<limiterVars, hreq, key, jwt, cors, gz>>

\* The middleware value m wraps a handler (a route): func(next) of New.
MwWrap(m) ==
    /\ m \in 1..Len(mws.made)
    /\ Len(mws.handlers) < MaxHandlers
    /\ mws' = [mws EXCEPT !.handlers = Append(@, [mw |-> m, served |-> 0])]
    /\ UNCHANGED <<limiterVars, hreq, key, jwt, cors, gz>>

\* The requests served so far.
RECURSIVE MwServed(_)
MwServed(h) ==
    IF h = 0 THEN 0 ELSE mws.handlers[h].served + MwServed(h - 1)

\* The handler h serves a request of key k: getLimiter and Allow on the
\* limiter it has captured. The request and the answer are counted for
\* the middleware value that wraps the handler, per key, and the request
\* for the handler.
MwServe(h, k) ==
    /\ h \in 1..Len(mws.handlers)
    /\ MwServed(Len(mws.handlers)) < MaxServed
    /\ LET r == LimiterOf(h)
           w == mws.handlers[h].mw
           m == getLimiter(mws.made[r], k)
           lim == m.limiters[k][1]
           ok == AllowOk(m.o, lim, 0)
           made1 == [mws.made EXCEPT
                        ![r] = [m EXCEPT !.limiters[k] =
                                             <<AllowLim(m.o, lim, 0)>>]]
       IN  mws' = [mws EXCEPT
                      !.made = [made1 EXCEPT
                                   ![w].served[k] = @ + 1,
                                   ![w].admitted[k] =
                                       IF ok THEN @ + 1 ELSE @],
                      !.handlers[h].served = @ + 1]
    /\ UNCHANGED <<limiterVars, hreq, key, jwt, cors, gz>>

\* New has not been called again.
MwIdle == mws = [made |-> <<>>, handlers |-> <<>>]

\* The functions and middlewares other than the rate limiter are not in
\* use.
OthersIdle == ExtractIdle /\ JwtIdle /\ CorsIdle /\ GzipIdle /\ MwIdle

\* ------------------------------------------------------------------- Init
\* The options the requests are served under: WithRate, WithBurst,
\* WithErrorHandler.
Opt(r, b, e) == [rate |-> r, burst |-> b, errorHandler |-> e]

\* Served concurrently: TestRateLimiterDifferentIPs.
Options == {Opt(1 * RateUnit, 1, "nil")}

\* Served one after the other: the limiter of TestRateLimiter and
\* TestRateLimiterRecovery, and a slow limiter of one request in 1000
\* seconds (WithRate(0.001)) with the error handler of
\* TestRateLimiterWithCustomErrorHandler.
SeqOptions ==
    {Opt(2 * RateUnit, 2, "nil"), Opt(RateUnit \div 1000, 2, "custom")}

\* The state after New has returned: an empty registry, the cleanup
\* goroutine started and waiting in its select (cpc is "select"); or the
\* state after newRateLimiter alone, when cleanup has not been called and
\* rl.cleanupCancel is nil (cpc is "none").
InitWith(opts, keys, n, conc, delays, adv, stoppers, cpcs) ==
    /\ o \in opts
    /\ load = [keys |-> keys, n |-> n, conc |-> conc, delays |-> delays,
               advances |-> adv]
    /\ limiters = [k \in Keys |-> Nil]
    /\ heap = <<>>
    /\ mu = Unlocked
    /\ ctxDone = FALSE
    /\ cleanupDone = FALSE
    /\ tickerC = FALSE
    /\ cpc \in cpcs
    /\ tickerOn = (cpc = "select")
    /\ now = 0
    /\ advances = 0
    /\ reqs = <<>>
    /\ stops = [s \in stoppers |-> "idle"]
    /\ ref = [k \in Keys |-> NewLimiter(o)]

\* Requests served concurrently, while the clock may jump past maxAge.
Init ==
    /\ InitWith(Options, Keys, NumReqs, NumReqs, {"idle"}, MaxAdvances,
                {"s1"}, {"select"})
    /\ OthersIdle

\* Requests of one client served one after the other (as the tests send
\* them), while the clock moves by fractions and multiples of the refill
\* time (which is longer than maxAge for the slow limiter).
SeqInit ==
    /\ InitWith(SeqOptions, {KeyOrder[1]}, NumSeqReqs, 1,
                {"half", "token", "burst"}, MaxAdvances, {"s1"}, {"select"})
    /\ OthersIdle

\* Options that WithRate and WithBurst accept although the limiter cannot
\* work with them: a rate or a burst that is zero or negative.
BadOptions ==
    {Opt(0, 1, "nil"), Opt(2 * RateUnit, 0, "nil"),
     Opt(0 - RateUnit, 1, "custom"), Opt(1 * RateUnit, 0 - 1, "custom")}

BadInit ==
    /\ InitWith(BadOptions, Keys, NumReqs, NumReqs, {"idle"}, MaxAdvances,
                {"s1"}, {"select"})
    /\ OthersIdle

\* One request more than are served at once: a request can find the bucket
\* that an earlier request has left in the registry while another request
\* is in flight.
HitInit ==
    /\ InitWith(Options, Keys, NumReqs + 1, NumReqs, {"idle"}, MaxAdvances,
                {"s1"}, {"select"})
    /\ OthersIdle

\* Two callers of Stop, on a limiter that New has made and on one that
\* newRateLimiter has made and whose cleanup was never started, while the
\* requests of one client are served.
Stoppers == {"s1", "s2"}
StopInit ==
    /\ InitWith(Options, {KeyOrder[1]}, NumReqs, 1, {"idle"}, MaxAdvances,
                Stoppers, {"select", "none"})
    /\ OthersIdle

\* The requests of one client, served one after the other, while the
\* clock moves twice: by maxAge, by a tick less, or by half a second.
KeepInit ==
    /\ InitWith(Options, {KeyOrder[1]}, NumReqs + 1, 1,
                {"age", "under", "short"}, MaxAdvances + 1, {"s1"},
                {"select"})
    /\ OthersIdle

\* The requests of one client served concurrently, while the clock moves
\* by half a second or past maxAge.
RaceInit ==
    /\ InitWith(Options, {KeyOrder[1]}, NumReqs, NumReqs, {"short", "idle"},
                MaxAdvances, {"s1"}, {"select"})
    /\ OthersIdle

\* The requests of two clients served one after the other by a limiter
\* on which Stop is never called, while the clock moves past maxAge.
RunInit ==
    /\ InitWith(Options, Keys, NumReqs, 1, {"idle"}, MaxAdvances, {},
                {"select"})
    /\ OthersIdle

\* A rate limiter that serves no request.
LimiterIdle == InitWith(Options, {}, 0, 0, {}, 0, {}, {"select"})

\* extractIP on its own, for every request of Requests.
ExtractInit ==
    /\ LimiterIdle /\ hreq \in Requests /\ key = <<>>
    /\ JwtIdle /\ CorsIdle /\ GzipIdle /\ MwIdle

\* The JWT middleware on its own, for every option and header.
JwtInit ==
    /\ LimiterIdle /\ ExtractIdle /\ CorsIdle /\ GzipIdle /\ MwIdle
    /\ jwt \in [o : JwtOptions, auths : Authorizations, w : {JwtNothing}]

\* ------------------------------------------------------------ the handler
InFlight == {i \in 1..Len(reqs) : reqs[i].pc # "done"}

\* A request arrives: key := o.keyFunc(r); getLimiter reads the clock and
\* looks the key up under the read lock:
\* rl.mu.RLock(); entry, exists := rl.limiters[key]; rl.mu.RUnlock()
Lookup(k) ==
    /\ k \in load.keys
    /\ Len(reqs) < load.n
    /\ \A j \in 2..Len(KeyOrder) :
          k = KeyOrder[j] => \E i \in 1..Len(reqs) : reqs[i].key = KeyOrder[j - 1]
    /\ Cardinality(InFlight) < load.conc
    /\ mu = Unlocked
    /\ reqs' = Append(reqs, [pc |-> IF limiters[k] # Nil
                                    THEN "hitLock" ELSE "missLock",
                             key |-> k, now |-> now, entry |-> limiters[k],
                             t |-> 0, ok |-> FALSE, refOk |-> FALSE,
                             w |-> NoResponse])
    /\ UNCHANGED <<otherVars, o, load, ref, limiters, heap, mu, ctxDone, cleanupDone, tickerC,
                   tickerOn, cpc, now, advances, stops>>

\* rl.mu.Lock(), on either path.
ReqLock(i) ==
    /\ reqs[i].pc \in {"hitLock", "missLock"}
    /\ mu = Unlocked
    /\ mu' = <<"req", i>>
    /\ reqs' = [reqs EXCEPT ![i].pc = IF reqs[i].pc = "hitLock"
                                      THEN "hitUpd" ELSE "missIns"]
    /\ UNCHANGED <<otherVars, o, load, ref, limiters, heap, ctxDone, cleanupDone, tickerC,
                   tickerOn, cpc, now, advances, stops>>

\* exists: entry.lastAccess = now; rl.mu.Unlock(); return entry.limiter
HitUpdate(i) ==
    /\ reqs[i].pc = "hitUpd"
    /\ heap' = [heap EXCEPT ![reqs[i].entry].lastAccess = reqs[i].now]
    /\ mu' = Unlocked
    /\ reqs' = [reqs EXCEPT ![i].pc = "allow"]
    /\ UNCHANGED <<otherVars, o, load, ref, limiters, ctxDone, cleanupDone, tickerC, tickerOn,
                   cpc, now, advances, stops>>

\* Mutant: no second check under the write lock, always a new entry.
MissEntryNoRecheck(m, h, k) == Len(h) + 1

\* Mutant: one entry for all the keys.
MissEntryShared(m, h, k) == 1

\* The double-checked insert: the entry a request leaves getLimiter with,
\* given the registry it finds under the write lock.
MissEntry(m, h, k) == IF m[k] = Nil THEN Len(h) + 1 ELSE m[k]

MissInsert(i) ==
    /\ reqs[i].pc = "missIns"
    /\ LET k == reqs[i].key
           e == MissEntry(limiters, heap, k)
       IN  /\ IF e > Len(heap)
              THEN heap' = Append(heap, NewEntry(o, reqs[i].now))
              ELSE heap' = [heap EXCEPT ![e].lastAccess = reqs[i].now]
           /\ limiters' = [limiters EXCEPT ![k] = e]
           /\ reqs' = [reqs EXCEPT ![i].entry = e, ![i].pc = "allow"]
    /\ mu' = Unlocked
    /\ UNCHANGED <<otherVars, o, load, ref, ctxDone, cleanupDone, tickerC, tickerOn, cpc, now,
                   advances, stops>>

\* l.Allow() reads the clock before it takes the limiter's own mutex.
AllowNow(i) ==
    /\ reqs[i].pc = "allow"
    /\ reqs' = [reqs EXCEPT ![i].t = now, ![i].pc = "reserve"]
    /\ UNCHANGED <<otherVars, o, load, ref, limiters, heap, mu, ctxDone, cleanupDone, tickerC,
                   tickerOn, cpc, now, advances, stops>>

\* l.Allow() decides under the limiter's mutex, and the handler answers.
\* The reference run makes the same check on the one bucket its key has.
AllowServe(i) ==
    /\ reqs[i].pc = "reserve"
    /\ LET e == reqs[i].entry
           k == reqs[i].key
           lim == heap[e].limiter
           ok == AllowOk(o, lim, reqs[i].t)
       IN  /\ heap' = [heap EXCEPT ![e].limiter = AllowLim(o, lim, reqs[i].t)]
           /\ ref' = [ref EXCEPT ![k] = AllowLim(o, ref[k], reqs[i].t)]
           /\ reqs' = [reqs EXCEPT ![i].ok = ok,
                                   ![i].refOk = AllowOk(o, ref[k], reqs[i].t),
                                   ![i].w = Respond(o, ok, reqs[i].w),
                                   ![i].pc = "done"]
    /\ UNCHANGED <<otherVars, o, load, limiters, mu, ctxDone, cleanupDone,
                   tickerC, tickerOn, cpc, now, advances, stops>>

\* ------------------------------------------------------------- the clock
TokenTicks(opt) == IF opt.rate > 0 THEN Scale \div opt.rate ELSE Second

\* The amounts by which the clock moves between two steps: half the time
\* of one token, the time of one token (1/R), the time of a full burst
\* (B/R), just over maxAge, maxAge itself, just under it, and half a
\* second.
Delay(opt, kind) ==
    CASE kind = "half" -> TokenTicks(opt) \div 2
      [] kind = "token" -> TokenTicks(opt)
      [] kind = "burst" -> opt.burst * TokenTicks(opt)
      [] kind = "idle" -> MaxAge + 1
      [] kind = "age" -> MaxAge
      [] kind = "under" -> MaxAge - 1
      [] kind = "short" -> Second \div 2

\* The ticker sends when a multiple of the interval has passed; the
\* channel holds one tick and a tick that finds it full is dropped.
Advance(kind) ==
    /\ advances < load.advances
    /\ advances' = advances + 1
    /\ now' = now + Delay(o, kind)
    /\ tickerC' = (tickerC \/ (tickerOn /\ now' \div CleanupInterval
                                            > now \div CleanupInterval))
    /\ UNCHANGED <<otherVars, o, load, ref, limiters, heap, mu, ctxDone, cleanupDone, tickerOn,
                   cpc, reqs, stops>>

\* ---------------------------------------------------- the cleanup goroutine
\* Mutant: the goroutine returns and cleanupDone is not closed.
CleanupExitSilent ==
    /\ cpc = "select"
    /\ ctxDone
    /\ cpc' = "exited"
    /\ tickerOn' = FALSE
    /\ UNCHANGED <<otherVars, o, load, ref, limiters, heap, mu, ctxDone,
                   cleanupDone, tickerC, now, advances, reqs, stops>>

\* case <-ctx.Done(): return, with the deferred close(rl.cleanupDone) and
\* ticker.Stop().
CleanupExit ==
    /\ cpc = "select"
    /\ ctxDone
    /\ cpc' = "exited"
    /\ cleanupDone' = TRUE
    /\ tickerOn' = FALSE
    /\ UNCHANGED <<otherVars, o, load, ref, limiters, heap, mu, ctxDone, tickerC, now,
                   advances, reqs, stops>>

\* case <-ticker.C:
CleanupTick ==
    /\ cpc = "select"
    /\ tickerC
    /\ tickerC' = FALSE
    /\ cpc' = "lock"
    /\ UNCHANGED <<otherVars, o, load, ref, limiters, heap, mu, ctxDone, cleanupDone, tickerOn,
                   now, advances, reqs, stops>>

\* rl.mu.Lock()
CleanupLock ==
    /\ cpc = "lock"
    /\ mu = Unlocked
    /\ mu' = <<"cleanup">>
    /\ cpc' = "sweep"
    /\ UNCHANGED <<otherVars, o, load, ref, limiters, heap, ctxDone, cleanupDone, tickerC,
                   tickerOn, now, advances, reqs, stops>>

\* Mutant: the sweep releases the lock and has deleted nothing.
CleanupSweepSkips ==
    /\ cpc = "sweep"
    /\ mu' = Unlocked
    /\ cpc' = "select"
    /\ UNCHANGED <<otherVars, o, load, ref, limiters, heap, ctxDone,
                   cleanupDone, tickerC, tickerOn, now, advances, reqs, stops>>

\* now := time.Now(); the delete loop; rl.mu.Unlock()
CleanupSweep ==
    /\ cpc = "sweep"
    /\ limiters' = [k \in Keys |->
                      IF k \in Expired(limiters, heap, now, MaxAge)
                      THEN Nil ELSE limiters[k]]
    /\ mu' = Unlocked
    /\ cpc' = "select"
    /\ UNCHANGED <<otherVars, o, load, ref, heap, ctxDone, cleanupDone, tickerC, tickerOn, now,
                   advances, reqs, stops>>

\* ------------------------------------------------------------------- Stop
\* if rl.cleanupCancel != nil { rl.cleanupCancel() ... }: the cancel, after
\* which the caller waits for cleanupDone; without a cleanup goroutine Stop
\* returns at once.
StopCancel(s) ==
    /\ stops[s] = "idle"
    /\ ctxDone' = (ctxDone \/ cpc # "none")
    /\ stops' = [stops EXCEPT ![s] = IF cpc # "none" THEN "wait"
                                     ELSE "returned"]
    /\ UNCHANGED <<otherVars, o, load, ref, limiters, heap, mu, cleanupDone, tickerC, tickerOn,
                   cpc, now, advances, reqs>>

\* Mutant: Stop returns without the wait for cleanupDone.
StopNoWait(s) ==
    /\ stops[s] = "wait"
    /\ stops' = [stops EXCEPT ![s] = "returned"]
    /\ UNCHANGED <<otherVars, o, load, ref, limiters, heap, mu, ctxDone, cleanupDone, tickerC,
                   tickerOn, cpc, now, advances, reqs>>

\* Mutant: the wait takes a value out of cleanupDone, as from a channel
\* that is sent to and not closed.
StopWaitTakes(s) ==
    /\ stops[s] = "wait"
    /\ cleanupDone
    /\ cleanupDone' = FALSE
    /\ stops' = [stops EXCEPT ![s] = "returned"]
    /\ UNCHANGED <<otherVars, o, load, ref, limiters, heap, mu, ctxDone, tickerC,
                   tickerOn, cpc, now, advances, reqs>>

\* <-rl.cleanupDone
StopWait(s) ==
    /\ stops[s] = "wait"
    /\ cleanupDone
    /\ stops' = [stops EXCEPT ![s] = "returned"]
    /\ UNCHANGED <<otherVars, o, load, ref, limiters, heap, mu, ctxDone, cleanupDone, tickerC,
                   tickerOn, cpc, now, advances, reqs>>

\* ------------------------------------------------------------------- Next
Next ==
    \/ \E k \in Keys : Lookup(k)
    \/ \E i \in 1..Len(reqs) : ReqLock(i)
    \/ \E i \in 1..Len(reqs) : HitUpdate(i)
    \/ \E i \in 1..Len(reqs) : MissInsert(i)
    \/ \E i \in 1..Len(reqs) : AllowNow(i)
    \/ \E i \in 1..Len(reqs) : AllowServe(i)
    \/ \E kind \in load.delays : Advance(kind)
    \/ CleanupExit
    \/ CleanupTick
    \/ CleanupLock
    \/ CleanupSweep
    \/ \E s \in DOMAIN stops : StopCancel(s)
    \/ \E s \in DOMAIN stops : StopWait(s)

Spec == Init /\ [][Next]_vars

KeepSpec == KeepInit /\ [][Next]_vars

RaceSpec == RaceInit /\ [][Next]_vars

SeqSpec == SeqInit /\ [][Next]_vars

BadSpec == BadInit /\ [][Next]_vars

HitSpec == HitInit /\ [][Next]_vars

\* Every goroutine that can take a step takes one in the end.
StopSpec == StopInit /\ [][Next]_vars /\ WF_vars(Next)

\* The limiter while it runs: the handlers, the clock and the sweep loop,
\* and no call of Stop. Every goroutine that can take a step takes one in
\* the end.
RunNext ==
    \/ \E k \in Keys : Lookup(k)
    \/ \E i \in 1..Len(reqs) : ReqLock(i)
    \/ \E i \in 1..Len(reqs) : HitUpdate(i)
    \/ \E i \in 1..Len(reqs) : MissInsert(i)
    \/ \E i \in 1..Len(reqs) : AllowNow(i)
    \/ \E i \in 1..Len(reqs) : AllowServe(i)
    \/ \E kind \in load.delays : Advance(kind)
    \/ CleanupTick
    \/ CleanupLock
    \/ CleanupSweep

RunSpec == RunInit /\ [][RunNext]_vars /\ WF_vars(RunNext)

ExtractNext == ExtractKey

ExtractSpec == ExtractInit /\ [][ExtractNext]_vars

JwtNext == JwtServe

JwtSpec == JwtInit /\ [][JwtNext]_vars

\* The CORS middleware on its own, for every option and request.
CorsInit ==
    /\ LimiterIdle /\ ExtractIdle /\ JwtIdle /\ GzipIdle /\ MwIdle
    /\ cors \in [o : CorsOptions,
                 origin : {"", "https://example.com", "https://evil.com", "*"},
                 method : {"GET", "OPTIONS"},
                 w : {CorsNothing}]

CorsNext == CorsServe

CorsSpec == CorsInit /\ [][CorsNext]_vars

\* The gzip middleware on its own, for every option and request.
GzipInit ==
    /\ LimiterIdle /\ ExtractIdle /\ JwtIdle /\ CorsIdle /\ MwIdle
    /\ \E opt \in GzipOptions, r \in GzipRequests : gz = GzipNew(opt, r)

GzipNext ==
    \/ GzipServe
    \/ HandlerSetLength
    \/ \E b \in Chunks : HandlerWrite(b)
    \/ \E code \in {StatusOK, StatusNoContent, StatusNotModified,
                     StatusNotFound} : HandlerWriteHeader(code)
    \/ HandlerReturn

GzipSpec == GzipInit /\ [][GzipNext]_vars

\* Calls of New, the handlers the middleware values wrap, and requests.
MwInit ==
    /\ LimiterIdle /\ ExtractIdle /\ JwtIdle /\ CorsIdle /\ GzipIdle
    /\ MwIdle

MwNext ==
    \/ \E opt \in NewOptions : MwNew(opt)
    \/ \E m \in 1..MaxMiddlewares : MwWrap(m)
    \/ \E h \in 1..MaxHandlers, k \in Keys : MwServe(h, k)

MwSpec == MwInit /\ [][MwNext]_vars

\* ------------------------------------------------------- reading the state
Sent == 1..Len(reqs)
Done == {i \in Sent : reqs[i].pc = "done"}
\* The requests that getLimiter has returned a bucket to.
Resolved == {i \in Sent : reqs[i].pc \in {"allow", "reserve", "done"}}
For(k) == {i \in Sent : reqs[i].key = k}
Admitted(S) == {i \in S : reqs[i].ok}
Rejected(S) == {i \in S : ~reqs[i].ok}

\* The requests for key k all arrived at one instant, and no time elapses
\* while they are handled: those that have read the clock for their
\* admission check read that same instant, and for the others the clock
\* still shows it. The key was never seen before them.
SameInstant(k) ==
    \A i, j \in For(k) :
        /\ reqs[i].now = reqs[j].now
        /\ IF reqs[i].pc \in {"reserve", "done"}
               THEN reqs[i].t = reqs[i].now
               ELSE now = reqs[i].now

\* ------------------------------------------------------------------- C1
\* C1: with rate R and burst B, the requests for a key never seen before,
\* arriving with no time between them, are admitted up to the B-th and
\* rejected from the (B+1)-th on: of n such requests answered, min(n, B) are
\* admitted.
C1_BurstCorrectness ==
    \A k \in Keys :
        SameInstant(k) =>
            Cardinality(Admitted(Done \cap For(k)))
                = Min(Cardinality(Done \cap For(k)), o.burst)

\* B + 1 such requests have been answered, the last one rejected.
C1_Witness ==
    \E k \in Keys :
        /\ SameInstant(k)
        /\ Cardinality(Done \cap For(k)) = o.burst + 1
        /\ Cardinality(Rejected(Done \cap For(k))) = 1
        /\ o.burst = 2

\* ------------------------------------------------------------------- C2
\* C2: of the concurrent requests for one key never seen before, with
\* burst 1 and no time elapsing, exactly one is admitted and the others are
\* rejected, and all of them leave getLimiter with the same bucket.
C2_IdempotentLookup ==
    \A k \in Keys :
        SameInstant(k) =>
            /\ Cardinality(Admitted(Done \cap For(k)))
                   = Min(Cardinality(Done \cap For(k)), 1)
            /\ \A i, j \in Resolved \cap For(k) : reqs[i].entry = reqs[j].entry

\* Two requests for one key both missed the lookup at one instant; one has
\* inserted the bucket and was admitted, the other holds the write lock and
\* is about to find that bucket in its second check.
C2_Witness ==
    \E i \in Done : \E j \in Sent :
        /\ reqs[i].key = reqs[j].key
        /\ SameInstant(reqs[i].key)
        /\ reqs[i].ok
        /\ reqs[j].pc = "missIns"
        /\ limiters[reqs[j].key] = reqs[i].entry
        /\ o.burst = 1

\* ------------------------------------------------------------------- C3
\* C3: the bucket a request has looked up is still the bucket registered
\* for its key until the request has made its admission check: the sweep
\* never deletes it in between.
C3_SweepResolveLinearizable ==
    \A i \in Sent :
        reqs[i].pc \in {"hitLock", "hitUpd", "allow", "reserve"}
            => limiters[reqs[i].key] = reqs[i].entry

\* ------------------------------------------------------------------- C4
\* Of the answered requests S, those whose admission check was at time T,
\* and those whose check was after U and before V.
At(S, T) == {i \in S : reqs[i].t = T}
Between(S, U, V) == {i \in S : U < reqs[i].t /\ reqs[i].t < V}
OfKey(k) == Done \cap For(k)
OfEntry(e) == {i \in Done : reqs[i].entry = e}

\* Whether the requests S, all checked at one instant, show the burst to be
\* exhausted at that instant: one of them was rejected, or B were admitted.
Exhausted(S) == Rejected(S) # {} \/ Cardinality(Admitted(S)) >= o.burst

\* Refill as the claim states it, of the requests S of one key or of one
\* bucket: once the burst is exhausted at T, and with no request between,
\* exactly one request is admitted at T + 1/R, and exactly B at T + B/R.
Refill(S, T) ==
    LET one == T + TokenTicks(o)
        full == T + o.burst * TokenTicks(o)
    IN  Exhausted(At(S, T)) =>
            /\ Between(S, T, one) = {} =>
                  Cardinality(Admitted(At(S, one)))
                      = Min(Cardinality(At(S, one)), 1)
            /\ Between(S, T, full) = {} =>
                  Cardinality(Admitted(At(S, full)))
                      = Min(Cardinality(At(S, full)), o.burst)

\* C4 as stated: a key that has exhausted its burst admits exactly one
\* request 1/R seconds later, and exactly B requests B/R seconds later.
C4_RefillPerKey ==
    \A i, j \in Done :
        (reqs[j].key = reqs[i].key /\ reqs[j].t > reqs[i].t) =>
            Refill(OfKey(reqs[i].key), reqs[i].t)

\* C4 (amended): the same of the requests that one bucket serves, that is,
\* as long as the key's bucket has not been evicted and created anew.
C4_RefillPerBucket ==
    \A i, j \in Done :
        (reqs[j].entry = reqs[i].entry /\ reqs[j].t > reqs[i].t) =>
            Refill(OfEntry(reqs[i].entry), reqs[i].t)

\* A bucket was exhausted, and of two requests 1/R later the first was
\* admitted and the second rejected.
C4_Witness ==
    \E e \in 1..Len(heap) : \E T \in {reqs[i].t : i \in Done} :
        /\ Exhausted(At(OfEntry(e), T))
        /\ Cardinality(Admitted(At(OfEntry(e), T + TokenTicks(o)))) = 1
        /\ Cardinality(Rejected(At(OfEntry(e), T + TokenTicks(o)))) = 1


\* ------------------------------------------------------------------- C5
\* C5: a step of a request for one key leaves every other key's bucket as
\* it is, registered to the same entry with the same tokens and lastAccess;
\* and a key that has had a request answered has had one admitted, whatever
\* was sent for the other keys.
C5_KeyIsolation ==
    /\ [](\A k \in Keys : Done \cap For(k) # {} =>
                            Admitted(Done \cap For(k)) # {})
    /\ [][\A i \in 1..Len(reqs') :
            (i > Len(reqs) \/ reqs'[i] # reqs[i]) =>
                \A k \in Keys \ {reqs'[i].key} :
                    /\ limiters'[k] = limiters[k]
                    /\ limiters[k] # Nil =>
                           heap'[limiters[k]] = heap[limiters[k]]]_vars

\* Two keys, the first exhausted (one request admitted and one rejected
\* would need three requests: here each key has had its one admission).
C5_Witness ==
    \E i, j \in Done :
        /\ reqs[i].key # reqs[j].key
        /\ reqs[i].ok /\ reqs[j].ok
        /\ reqs[i].t = reqs[j].t

\* ------------------------------------------------------------------- C6
SweepStep == cpc = "sweep" /\ cpc' = "select"
InsertStep(i) ==
    /\ reqs[i].pc = "missIns" /\ reqs'[i].pc = "allow"
    /\ limiters[reqs[i].key] = Nil
FirstCheck(i) ==
    /\ reqs[i].pc = "reserve" /\ reqs'[i].pc = "done"
    /\ \A j \in Done : reqs[j].entry # reqs[i].entry

\* C6: a sweep removes from the registry every bucket that has been idle
\* longer than maxAge; the next request for such a key finds no bucket and
\* creates a new one, never used before and holding the full burst; and
\* the first admission check on a new bucket admits.
C6_EvictionResetsBurst ==
    [][/\ SweepStep =>
            \A k \in Keys :
                (limiters[k] # Nil /\ now - heap[limiters[k]].lastAccess > MaxAge)
                    => limiters'[k] = Nil
       /\ \A i \in Sent :
            InsertStep(i) =>
                LET e == limiters'[reqs[i].key]
                IN  /\ e = reqs'[i].entry
                    /\ e \notin 1..Len(heap)
                    /\ heap'[e].limiter.tokens = o.burst * Scale
       /\ \A i \in Sent : FirstCheck(i) => reqs'[i].ok]_vars

\* A key's bucket was used up, evicted, and the key's next request was
\* admitted from a second bucket, which is the one now registered.
C6_Witness ==
    \E i, j \in Done :
        /\ reqs[i].key = reqs[j].key
        /\ reqs[i].entry < reqs[j].entry
        /\ reqs[i].ok /\ reqs[j].ok
        /\ reqs[j].now - reqs[i].t > MaxAge
        /\ limiters[reqs[j].key] = reqs[j].entry

\* ------------------------------------------------------------------- C7
Returned == \E s \in DOMAIN stops : stops[s] = "returned"

\* C7: Stop returns only once the sweep loop has exited, and from then on
\* no bucket is removed from the registry.
C7_Teardown ==
    [][/\ (\E s \in DOMAIN stops : stops'[s] = "returned") => cpc' = "exited"
       /\ Returned =>
            \A k \in Keys : limiters[k] # Nil => limiters'[k] # Nil]_vars

\* Stop has returned with a tick still waiting in the channel and a bucket
\* in the registry that a sweep would remove.
C7_Witness ==
    /\ Returned
    /\ tickerC
    /\ \E k \in Keys :
          limiters[k] # Nil /\ now - heap[limiters[k]].lastAccess > MaxAge

\* ------------------------------------------------------------------- C8
\* C8: every request is answered exactly once, by the next handler when it
\* is admitted and by the reject path when it is not, and by neither before
\* its admission check.
C8_ExactlyOneOutcome ==
    \A i \in Sent :
        LET w == reqs[i].w
        IN  IF reqs[i].pc = "done"
            THEN /\ w.next + w.reject = 1
                 /\ w.next = 1 <=> reqs[i].ok
            ELSE w.next = 0 /\ w.reject = 0

\* One request has been admitted and another rejected.
C8_Witness ==
    \E i, j \in Done : reqs[i].w.next = 1 /\ reqs[j].w.reject = 1

\* ------------------------------------------------------------------- C9
\* C9: a limiter built with a rate or a burst that is not positive serves
\* no request.
C9_FailFast ==
    (o.rate <= 0 \/ o.burst <= 0) => Done = {}

\* ------------------------------------------------------------------ C10
\* C10: a rejected request is answered 429 with Content-Type
\* application/json and the body {"error":"rate limit exceeded"} when there
\* is no custom error handler, and by the custom handler alone when there
\* is one.
C10_RejectResponse ==
    \A i \in Rejected(Done) :
        LET w == reqs[i].w
        IN  IF o.errorHandler = "nil"
            THEN /\ w.status = StatusTooManyRequests
                 /\ w.ctype = "application/json"
                 /\ w.body = "{\"error\":\"rate limit exceeded\"}"
            ELSE /\ w.status = StatusServiceUnavailable
                 /\ w.ctype = ""
                 /\ w.body = "Custom rate limit error"

\* A request has been rejected by the default path.
C10_Witness ==
    \E i \in Rejected(Done) : o.errorHandler = "nil"

\* ------------------------------------------------------------------ C11
\* C11: a request never waits for rl.mu while the lock is held for a
\* request of another key whose bucket already exists (the holder is on the
\* path of getLimiter that found its bucket in the registry).
C11_NoCrossKeyContention ==
    \A i, j \in Sent :
        (/\ mu = <<"req", j>>
         /\ reqs[j].pc = "hitUpd"
         /\ reqs[i].key # reqs[j].key)
            => reqs[i].pc \notin {"hitLock", "missLock"}

FirstEntry(k) ==
    LET es == {reqs[j].entry : j \in For(k)} \ {Nil}
    IN  CHOOSE e \in es : \A f \in es : e <= f

\* C13: every request that is served from the bucket its key has had from
\* the start (not a fresh one made after an eviction) is decided as in the
\* run of the same admission checks in which no sweep ever runs.
C13_SweepOnlyBoundsMemory ==
    \A i \in Done :
        reqs[i].entry = FirstEntry(reqs[i].key) => reqs[i].ok = reqs[i].refOk

\* ------------------------------------------------------------------ C14
\* The requests that differ from r at most in the source port and in the
\* X-Forwarded-For and X-Real-IP headers, r being from the peer host h.
SamePeer(h) ==
    {[RemoteAddr |-> JoinHostPort(h, p), forwarded |-> f, realIP |-> x] :
        p \in Ports, f \in Forwardeds, x \in RealIPs}

\* C14: when RemoteAddr is host:port and the host is an IP, the key is that
\* host, without the port and whatever the proxy headers say; every request
\* from the same peer host gets the same key.
C14_PeerAddressPreferred ==
    LET sp == SplitHostPort(hreq.RemoteAddr)
    IN  (key # <<>> /\ ~sp.err /\ ParseIP(sp.host)) =>
            /\ key = <<sp.host>>
            /\ \A r \in SamePeer(sp.host) : <<extractIP(r)>> = key

\* The key of a request from 8.8.8.8 whose X-Forwarded-For names another
\* address that could be used, and whose X-Real-IP does too.
C14_Witness ==
    /\ key = <<"8.8.8.8">>
    /\ hreq.RemoteAddr = "8.8.8.8:1234"
    /\ hreq.forwarded = <<"10.0.0.1", " 8.8.8.8">>
    /\ hreq.realIP = "10.0.0.1"


\* ------------------------------------------------------------------ C15
\* The first field of X-Forwarded-For, from the i-th on, that is a valid,
\* public, non-loopback IP ("" when there is none).
RECURSIVE FirstPublic(_, _)
FirstPublic(ips, i) ==
    IF i > Len(ips) THEN ""
    ELSE IF LET s == TrimSpace(ips[i])
            IN  ParseIP(s) /\ ~IsLoopback(s) /\ s # "10.0.0.1"
         THEN TrimSpace(ips[i])
    ELSE FirstPublic(ips, i + 1)

\* C15: when RemoteAddr gives no IP, the key is the first valid, public,
\* non-loopback field of X-Forwarded-For; without one, X-Real-IP when it is
\* a valid non-loopback IP; otherwise RemoteAddr as it is.
C15_FallbackOrder ==
    LET sp == SplitHostPort(hreq.RemoteAddr)
    IN  (key # <<>> /\ (sp.err \/ ~ParseIP(sp.host))) =>
            key = IF FirstPublic(hreq.forwarded, 1) # ""
                  THEN <<FirstPublic(hreq.forwarded, 1)>>
                  ELSE IF ParseIP(hreq.realIP) /\ ~IsLoopback(hreq.realIP)
                  THEN <<hreq.realIP>>
                  ELSE <<hreq.RemoteAddr>>

\* ------------------------------------------------------------------ C16
\* C16: every call of Stop returns, the second one and a concurrent one as
\* well; a step of Stop leaves the registry as it is; cleanupDone is
\* closed by the cleanup goroutine alone, once, when it exits; and on a
\* limiter without a cleanup goroutine no caller of Stop ever waits.
C16_StopIdempotent ==
    /\ \A s \in Stoppers : (stops[s] = "wait") ~> (stops[s] = "returned")
    /\ [][stops' # stops => limiters' = limiters /\ heap' = heap]_vars
    /\ [](cleanupDone => cpc = "exited")
    /\ [](cpc = "none" => \A s \in Stoppers : stops[s] # "wait")

\* Both calls of Stop have returned from a limiter whose cleanup goroutine
\* had been started, with a bucket in the registry.
C16_Witness ==
    /\ \A s \in Stoppers : stops[s] = "returned"
    /\ cpc = "exited"
    /\ \E k \in Keys : limiters[k] # Nil

\* ------------------------------------------------------------------ C17
\* The handler has served the request.
JwtServed == jwt.w # JwtNothing

\* The token of the request is well-formed, verifies under the configured
\* key, is neither expired nor not yet valid, and is signed by the
\* configured method.
GoodToken ==
    /\ Len(jwt.auths) = 2
    /\ jwt.auths[2].form = "ok"
    /\ jwt.auths[2].key = jwt.o.signingKey
    /\ jwt.auths[2].time = "valid"
    /\ jwt.auths[2].alg = jwt.o.signingMethod

\* The gate, for a request whose scheme is accepted: next is invoked once
\* and the claims are in the context under the configured key; otherwise
\* a 401 JSON response is written, next is not invoked and nothing is put
\* in the context.
JwtGate(accepted) ==
    IF accepted /\ GoodToken
    THEN /\ jwt.w.next = 1
         /\ jwt.w.ctype = "" /\ jwt.w.code = 0
         /\ jwt.w.ctxKey = jwt.o.contextKey
         /\ jwt.w.ctxClaims = jwt.auths[2].claims
    ELSE /\ jwt.w.next = 0
         /\ jwt.w.status = StatusUnauthorized
         /\ jwt.w.ctype = "application/json"
         /\ jwt.w.code = StatusUnauthorized /\ jwt.w.message # ""
         /\ jwt.w.ctxKey = "" /\ jwt.w.ctxClaims = ""

\* C17 as stated: next is invoked only when the header is the word
\* "Bearer", a space and a good token; every other request gets a 401 JSON
\* response; the claims are in the context only when next is invoked.
C17_JwtGateBearer ==
    JwtServed => JwtGate(jwt.auths[1] = "Bearer")

\* C17: the same gate, with the scheme compared to "Bearer" without regard
\* to case.
C17_JwtGate ==
    JwtServed => JwtGate(jwt.auths[1] \in {"Bearer", "bearer", "BEARER"})

\* A request with the scheme "bearer" and a good HS512 token has reached
\* next, with its claims in the context under "custom_claims".
C17_Witness ==
    /\ JwtServed /\ GoodToken
    /\ jwt.auths[1] = "bearer"
    /\ jwt.o.signingMethod = "HS512"
    /\ jwt.w.next = 1
    /\ jwt.w.ctxKey = "custom_claims"

\* ------------------------------------------------------------------ C18
\* The origin is listed in the allowed origins as itself.
ExplicitlyListed(origin, allowedOrigins) ==
    \E i \in 1..Len(allowedOrigins) :
        allowedOrigins[i] = origin /\ allowedOrigins[i] # "*"

\* C18: the response carries Access-Control-Allow-Credentials: true only
\* when allowCredentials is set and the Origin of the request is listed in
\* the allowed origins as itself; an origin that is accepted because of a
\* "*" entry alone never gets it.
C18_CredentialsNeedListedOrigin ==
    cors.w.allowCredentials = "true" =>
        /\ cors.o.allowCredentials
        /\ ExplicitlyListed(cors.origin, cors.o.allowedOrigins)

\* ------------------------------------------------------------------ C19
\* The next handler has returned from a request that accepts gzip on a
\* path that is not excluded.
GzipDone == gz.pc = "done" /\ gz.wrapped

\* C19: a response whose body is at least minLength bytes, with a status
\* other than 204 and 304, is sent with Content-Encoding: gzip and as a
\* gzip stream, however the body was split over the calls of Write and
\* whether or not WriteHeader was called before the first of them.
C19_GzipThreshold ==
    (/\ GzipDone
     /\ Len(gz.wrote) >= gz.o.minLength
     /\ gz.status \notin {StatusNoContent, StatusNotModified}) =>
        /\ gz.sentEncoding = "gzip"
        /\ Gunzip(gz.body) # <<-1>>


\* ------------------------------------------------------------------ C20
\* C20: once the next handler has returned and Close has run, what was
\* delivered is all the bytes the handler passed to Write, in order, once
\* each, whatever calls of Write and WriteHeader it made; no call has
\* dereferenced a decision that was not made.
C20_ContentPreserved ==
    GzipDone =>
        /\ gz.wrote = (IF gz.sentEncoding = "gzip" THEN Gunzip(gz.body)
                       ELSE gz.body)
        /\ ~gz.panic

\* A body of two bytes under a minLength of three, written by the only
\* call of the handler, was buffered and has been sent as it is by Close.
C20_Witness ==
    /\ GzipDone
    /\ gz.o.minLength = 3 /\ gz.calls = 1
    /\ gz.wrote = <<2, 1>> /\ gz.body = <<2, 1>>
    /\ gz.sentEncoding = "" /\ gz.status = StatusOK

\* ------------------------------------------------------------------ C21
\* The body holds a byte that came out of the gzip writer.
HasGzipBytes(body) == \E i \in 1..Len(body) : body[i] \notin Bytes

\* C21: as long as the handler has written fewer than minLength bytes,
\* whatever calls of Write and WriteHeader it has made, the decision is not
\* to compress, Content-Encoding: gzip is neither set nor sent, and nothing
\* has gone through the gzip writer; this still holds after Close.
C21_SmallNotCompressed ==
    (gz.wrapped /\ Len(gz.wrote) < gz.o.minLength) =>
        /\ gz.shouldCompress # "true"
        /\ gz.encoding # "gzip" /\ gz.sentEncoding # "gzip"
        /\ ~gz.zopen /\ ~HasGzipBytes(gz.body)

\* Two bytes under a minLength of three, written around a call of
\* WriteHeader(404), have been sent as they are.
C21_Witness ==
    /\ GzipDone
    /\ gz.o.minLength = 3 /\ gz.calls = 3
    /\ gz.wrote = <<1, 2>> /\ gz.body = <<1, 2>>
    /\ gz.status = StatusNotFound /\ gz.sentEncoding = ""

\* ------------------------------------------------------------------ C22
\* The handler has served the request.
CorsServed == cors.w # CorsNothing


\* C22: an OPTIONS request is answered with 204 and never reaches next,
\* whether its Origin is allowed or not; a request of another method from
\* an origin that is not allowed gets no Access-Control-Allow-Origin; an
\* origin that is listed as itself is echoed, with Vary: Origin.
C22_Preflight ==
    CorsServed =>
        /\ cors.method = "OPTIONS" =>
               cors.w.status = StatusNoContent /\ cors.w.next = 0
        /\ (cors.method # "OPTIONS"
               /\ \A i \in 1..Len(cors.o.allowedOrigins) :
                      /\ cors.o.allowedOrigins[i] # "*"
                      /\ cors.o.allowedOrigins[i] # cors.origin) =>
               cors.w.allowOrigin = "" /\ cors.w.next = 1
        /\ ExplicitlyListed(cors.origin, cors.o.allowedOrigins) =>
               cors.w.allowOrigin = cors.origin /\ cors.w.vary = "Origin"

\* A preflight request from an origin that is not allowed has been answered
\* with 204, without Access-Control-Allow-Origin and without next.
C22_Witness ==
    /\ CorsServed
    /\ cors.method = "OPTIONS" /\ cors.origin = "https://evil.com"
    /\ cors.o.allowedOrigins = <<"https://example.com">>
    /\ cors.w.status = StatusNoContent /\ cors.w.next = 0
    /\ cors.w.allowOrigin = "" /\ cors.w.allowMethods

\* ------------------------------------------------------------------ C23
\* Request j is the request of its key that follows request i.
NextOfKey(i, j) ==
    /\ i < j /\ reqs[i].key = reqs[j].key
    /\ \A m \in Sent : (i < m /\ m < j) => reqs[m].key # reqs[i].key

\* C23: a sweep removes a bucket if and only if it was last accessed more
\* than maxAge before the sweep; and a request that follows the previous
\* request of its key by less than maxAge is served from the same bucket as
\* that one.
C23_SweepEvictsExactlyIdle ==
    /\ [][SweepStep =>
            \A k \in Keys :
                limiters[k] # Nil =>
                    (limiters'[k] = Nil
                        <=> now - heap[limiters[k]].lastAccess > MaxAge)]_vars
    /\ [](\A i, j \in Resolved :
            (NextOfKey(i, j) /\ reqs[j].now - reqs[i].now < MaxAge)
                => reqs[j].entry = reqs[i].entry)

\* ------------------------------------------------------------------ C24
\* C24: the lastAccess of a bucket never moves backwards; and once every
\* call of getLimiter that was started has returned, the lastAccess of the
\* bucket a call has returned is not earlier than the time at which any
\* call for the same key that returned this bucket started.
C24_LastAccessMostRecent ==
    /\ [][\A e \in 1..Len(heap) :
            heap'[e].lastAccess >= heap[e].lastAccess]_vars
    /\ []((\A i \in Sent : reqs[i].pc \in {"allow", "reserve", "done"}) =>
             \A i \in Sent : heap[reqs[i].entry].lastAccess >= reqs[i].now)


\* ------------------------------------------------------------------ C25
\* C25: the step that rejects a request leaves its bucket, and every other
\* bucket, as it was; and once a bucket is exhausted at T, whatever
\* requests it has rejected before T + 1/R (and if it has admitted none),
\* of the requests checked at T + 1/R exactly one is admitted.
C25_RejectConsumesNothing ==
    /\ [][\A i \in Sent : (/\ reqs[i].pc = "reserve"
                          /\ reqs'[i].pc = "done" /\ ~reqs'[i].ok)
                             => heap' = heap]_vars
    /\ [](\A i, j \in Done :
            (/\ reqs[j].entry = reqs[i].entry
             /\ reqs[j].t = reqs[i].t + TokenTicks(o)
             /\ Exhausted(At(OfEntry(reqs[i].entry), reqs[i].t))
             /\ Admitted(Between(OfEntry(reqs[i].entry),
                                 reqs[i].t, reqs[j].t)) = {}) =>
                Cardinality(Admitted(At(OfEntry(reqs[i].entry), reqs[j].t)))
                    = 1)

\* A bucket was exhausted by an admitted request, has rejected a request
\* half of 1/R later, and has admitted one at 1/R.
C25_Witness ==
    \E i, j, m \in Done :
        /\ reqs[i].entry = reqs[j].entry /\ reqs[j].entry = reqs[m].entry
        /\ reqs[i].ok /\ ~reqs[j].ok /\ reqs[m].ok
        /\ o.burst = 1
        /\ reqs[j].t = reqs[i].t + TokenTicks(o) \div 2
        /\ reqs[m].t = reqs[i].t + TokenTicks(o)

\* ------------------------------------------------------------------ C26
\* The bucket of key k is in the registry and was last accessed more than
\* maxAge ago.
Idle(k) == limiters[k] # Nil /\ now - heap[limiters[k]].lastAccess > MaxAge


\* C26: while the sweep loop runs, a bucket that is idle when a tick is
\* due is removed from the registry in the end, unless a new request for
\* its key makes it not idle; and what a sweep leaves in the registry was
\* accessed within maxAge.
C26_NoUnboundedGrowth ==
    /\ \A k \in Keys :
          (Idle(k) /\ (tickerC \/ cpc \in {"lock", "sweep"}))
              ~> (limiters[k] = Nil \/ ~Idle(k))
    /\ [][SweepStep =>
            \A k \in Keys :
                limiters'[k] # Nil =>
                    now - heap[limiters'[k]].lastAccess <= MaxAge]_vars

\* Both keys have had a bucket and the sweep has emptied the registry,
\* with the loop back in its select.
C26_Witness ==
    /\ cpc = "select" /\ ~tickerC /\ ~ctxDone
    /\ Len(heap) = 2
    /\ \A k \in Keys : limiters[k] = Nil
    /\ \A i \in Sent : reqs[i].pc = "done"

\* ------------------------------------------------------------------ C27
\* C27: on a limiter whose sweep loop was started, a call of Stop that has
\* cancelled the loop returns in the end, whatever the handlers and the
\* sweep are doing; and once the loop is cancelled the sweep goroutine
\* exits and closes cleanupDone.
C27_StopTerminates ==
    /\ \A s \in Stoppers :
          (stops[s] # "idle" /\ cpc # "none") ~> (stops[s] = "returned")
    /\ ctxDone ~> (cpc = "exited" /\ cleanupDone)

\* Stop has cancelled the loop and waits, while the sweep holds the
\* registry lock and a request waits for it.
C27_Witness ==
    /\ \E s \in Stoppers : stops[s] = "wait"
    /\ cpc = "sweep" /\ mu = <<"cleanup">>
    /\ \E i \in Sent : reqs[i].pc \in {"hitLock", "missLock"}

\* ------------------------------------------------------------------ C28
\* The requests of key k admitted by a check made from time U to time V.
AdmittedIn(k, U, V) ==
    {m \in Admitted(OfKey(k)) : U <= reqs[m].t /\ reqs[m].t <= V}

\* C28: of the requests of one key, those admitted within any window of
\* time are at most burst plus rate times the length of the window.
C28_PerKeyRateBound ==
    \A i, j \in Done :
        (reqs[i].key = reqs[j].key /\ reqs[i].t <= reqs[j].t) =>
            Cardinality(AdmittedIn(reqs[i].key, reqs[i].t, reqs[j].t)) * Scale
                <= o.burst * Scale
                     + tokensFromDuration(o, reqs[j].t - reqs[i].t)

\* ------------------------------------------------------------------ C29
\* C29: the decision of a gzipResponseWriter, once made, never changes;
\* the response is sent with Content-Encoding: gzip exactly when the
\* decision is to compress, then without Content-Length and with Vary:
\* Accept-Encoding; a response sent with Content-Encoding: gzip holds
\* nothing but the output of the gzip writer (a whole gzip stream once
\* Close has run), and any other response holds none of it.
C29_DecisionConsistent ==
    /\ [][gz.shouldCompress # "nil"
             => gz'.shouldCompress = gz.shouldCompress]_vars
    /\ [](gz.wrapped =>
            /\ gz.sentEncoding = "gzip" <=> gz.shouldCompress = "true"
            /\ gz.sentEncoding = "gzip" =>
                   /\ gz.sentLength = "" /\ gz.sentVary = "Accept-Encoding"
                   /\ \A i \in 1..Len(gz.body) : gz.body[i] \notin Bytes
                   /\ gz.pc = "done" => Gunzip(gz.body) = gz.wrote
            /\ gz.sentEncoding # "gzip" => ~HasGzipBytes(gz.body))

\* A handler that had set Content-Length has written three bytes in two
\* calls under a minLength of three: the response went out compressed.
C29_Witness ==
    /\ GzipDone
    /\ gz.o.minLength = 3 /\ gz.calls = 2 /\ gz.wrote = <<1, 2, 2>>
    /\ gz.shouldCompress = "true" /\ gz.sentEncoding = "gzip"
    /\ gz.lengthSet /\ gz.length = "" /\ gz.sentLength = ""
    /\ gz.sentVary = "Accept-Encoding"

\* ------------------------------------------------------------------ C30
\* C30: the requests of one key that arrive with no time between them are
\* admitted up to the burst of a middleware value, counted over all the
\* handlers that value wraps and over no handler of another value: every
\* call of New has a registry and a sweep loop of its own.
C30_IndependentRegistries ==
    \A m \in 1..Len(mws.made) :
        /\ mws.made[m].cleanup = "select"
        /\ \A k \in Keys :
              mws.made[m].admitted[k]
                  = Min(mws.made[m].served[k], mws.made[m].o.burst)

\* Two middleware values of burst 1: the first wraps two handlers, which
\* have served one request of a key each, one admitted and one rejected,
\* and the handler of the second has admitted a request of the same key.
C30_Witness ==
    /\ Len(mws.made) = 2 /\ Len(mws.handlers) = 3
    /\ mws.handlers[1].mw = 1 /\ mws.handlers[2].mw = 1
    /\ mws.handlers[3].mw = 2
    /\ \A h \in 1..3 : mws.handlers[h].served = 1
    /\ \A m \in 1..2 : mws.made[m].o.burst = 1
    /\ mws.made[1].served[KeyOrder[1]] = 2
    /\ mws.made[1].admitted[KeyOrder[1]] = 1
    /\ mws.made[2].admitted[KeyOrder[1]] = 1

====
